---- MODULE Spec2Model ----
(***************************************************************************)
(* Football Video Analyzer: the tag registry (TagManager), the clip        *)
(* bookkeeping, the playback state, the time-code conversion and the JSON  *)
(* project file of src/main.py, with the older window of                   *)
(* src/SiamakEditor.py as a second variant of the tag code.                *)
(*                                                                         *)
(* Python values are modelled as follows.  None is the string NoneVal; a   *)
(* dict is a function whose DOMAIN is its key set; a list is a sequence    *)
(* (Python index i is TLA+ index i + 1); an attribute that may not exist   *)
(* (hasattr) is a sequence of length 0 or 1.  Widgets are modelled only    *)
(* where a handler reads them back (tag buttons, the tag input).           *)
(***************************************************************************)
EXTENDS Integers, Sequences, FiniteSets, TLC

VARIABLES
    variant,        \* "main" (src/main.py) or "editor" (src/SiamakEditor.py)
    tag_manager,    \* self.tag_manager: [tags, shortcuts, tag_colors]
    buttons,        \* texts of the DraggableButtons in tags_layout
    selected_tag,   \* self.selected_tag: <<>> if the attribute is not set
    addLog,         \* history: the add_tag calls made, in order
    nAdds,          \* history: how many of them the AddTag action made
    cap,            \* self.cap
    video_path,     \* self.video_path
    total_frames,   \* self.total_frames
    fps,            \* self.fps, a rational [num, den]
    current_frame,  \* self.current_frame
    playing,        \* self.playing
    clips,          \* self.clips
    clip_start,     \* self.clip_start: <<>> if the attribute is not set
    clip_end,       \* self.clip_end: <<>> if the attribute is not set
    tag_input,      \* text of self.tag_input
    time_label,     \* text of self.time_label
    disk,           \* the project file: <<>> or <<document>>
    savedProject,   \* history: the project that the last save_data wrote
    replacedClips,  \* history: self.clips before the last load_data call
    tcFrames,       \* argument of the frames_to_time call under study
    tcResult,       \* its result, <<>> before the call
    lastOp,         \* history: the handler that ran last, and what it did
    prevOp,         \* history: the handler that ran before it
    outcome         \* the message box the last handler showed, or "none"

vars == <<variant, tag_manager, buttons, selected_tag, addLog, nAdds, cap, video_path,
          total_frames, fps, current_frame, playing, clips, clip_start,
          clip_end, tag_input, time_label, disk, savedProject, replacedClips, tcFrames,
          tcResult,
          lastOp, prevOp, outcome>>

tagVars == <<variant, tag_manager, buttons, selected_tag, addLog, nAdds>>
playVars == <<cap, video_path, total_frames, fps, current_frame, playing, time_label>>
clipVars == <<clips, clip_start, clip_end, tag_input>>
storeVars == <<disk, savedProject, replacedClips>>
tcVars == <<tcFrames, tcResult>>

----------------------------------------------------------------------------
(* Python helpers *)

NoneVal == "<None>"

\* Python truthiness of an optional string: None and "" are false.
Truthy(v) == v # NoneVal /\ v # ""

\* x in list
In(x, list) == \E i \in 1..Len(list) : list[i] = x

\* d[k] = v on a dict
Put(d, k, v) == [x \in (DOMAIN d) \cup {k} |-> IF x = k THEN v ELSE d[x]]

EmptyDict == [x \in {} |-> NoneVal]

Rat(n, d) == [num |-> n, den |-> d]

----------------------------------------------------------------------------
(* TagManager *)

available_colors ==
    << "#FF9999", "#99FF99", "#9999FF",
       "#FFFF99", "#FF99FF", "#99FFFF",
       "#FFCC99", "#CC99FF", "#FF6666",
       "#66FF66", "#6666FF" >>

NeutralColor == "#DDDDDD"

\* TagManager.__init__
NewTagManager == [tags |-> <<>>, shortcuts |-> EmptyDict, tag_colors |-> EmptyDict]

\* A plausible slip: the palette indexed by the tag count before the append.
fallback_color_before_append(v, tags) ==
    IF v = "main"
    THEN available_colors[((Len(tags) - 1) % Len(available_colors)) + 1]
    ELSE NeutralColor

\* The right-hand side of the "else" on line 41, evaluated after the append on
\* line 38: tags is the list that already holds the new tag.
fallback_color(v, tags) ==
    IF v = "main"
    THEN available_colors[(Len(tags) % Len(available_colors)) + 1]
    ELSE NeutralColor

\* A plausible slip: no membership test, every call appends.
add_tag_unguarded(v, tm, tag, shortcut, color) ==
    LET tags1 == Append(tm.tags, tag) IN
    [tags |-> tags1,
     shortcuts |-> IF Truthy(shortcut) THEN Put(tm.shortcuts, tag, shortcut)
                   ELSE tm.shortcuts,
     tag_colors |-> Put(tm.tag_colors, tag,
                        IF Truthy(color) THEN color ELSE fallback_color(v, tags1))]

\* A plausible slip: the shortcut and the color are stored outside the
\* membership test, so a repeated call overwrites them.
add_tag_overwriting(v, tm, tag, shortcut, color) ==
    LET tags1 == IF In(tag, tm.tags) THEN tm.tags ELSE Append(tm.tags, tag) IN
    [tags |-> tags1,
     shortcuts |-> IF Truthy(shortcut) THEN Put(tm.shortcuts, tag, shortcut)
                   ELSE tm.shortcuts,
     tag_colors |-> Put(tm.tag_colors, tag,
                        IF Truthy(color) THEN color ELSE fallback_color(v, tags1))]

\* TagManager.add_tag of variant v on the manager tm; the manager afterwards.
add_tag(v, tm, tag, shortcut, color) ==
    IF ~In(tag, tm.tags)
    THEN LET tags1 == Append(tm.tags, tag) IN
         [tags |-> tags1,
          shortcuts |-> IF Truthy(shortcut) THEN Put(tm.shortcuts, tag, shortcut)
                        ELSE tm.shortcuts,
          tag_colors |-> Put(tm.tag_colors, tag,
                             IF Truthy(color) THEN color
                             ELSE fallback_color(v, tags1))]
    ELSE tm

\* TagManager.get_tag_color
get_tag_color(tm, tag) ==
    IF tag \in DOMAIN tm.tag_colors THEN tm.tag_colors[tag] ELSE NeutralColor

\* TagManager.get_tags
get_tags(tm) == tm.tags

\* TagManager.get_shortcut
get_shortcut(tm, tag) ==
    IF tag \in DOMAIN tm.shortcuts THEN tm.shortcuts[tag] ELSE NoneVal

\* The calls made by setup_default_tags, as add_tag arguments.
default_tags ==
    << [tag |-> "DefCorner", shortcut |-> "Ctrl+1", color |-> NoneVal],
       [tag |-> "TraAttToDef", shortcut |-> "Ctrl+2", color |-> NoneVal],
       [tag |-> "CounterAttack", shortcut |-> "Ctrl+3", color |-> NoneVal],
       [tag |-> "SetPiece", shortcut |-> "Ctrl+4", color |-> NoneVal],
       [tag |-> "Goal", shortcut |-> "Ctrl+5", color |-> NoneVal] >>

\* The manager after the add_tag calls of `calls`, in order, on tm.
RECURSIVE AddAll(_, _, _)
AddAll(v, tm, calls) ==
    IF calls = <<>> THEN tm
    ELSE AddAll(v, add_tag(v, tm, Head(calls).tag, Head(calls).shortcut,
                           Head(calls).color), Tail(calls))

\* setup_default_tags: a new manager holding the five default tags.
setup_default_tags(v) == AddAll(v, NewTagManager, default_tags)

----------------------------------------------------------------------------
(* Time code *)

DigitChars == <<"0", "1", "2", "3", "4", "5", "6", "7", "8", "9">>

\* A number below 100 as two decimal digits ("HH", "mm", "ss").
Pad2(n) == DigitChars[(n \div 10) + 1] \o DigitChars[(n % 10) + 1]

\* Python int() of the quotient a / b, b > 0: truncation toward zero.
TruncDiv(a, b) == IF a >= 0 THEN a \div b ELSE -((-a) \div b)

\* QTime(0, 0, 0).addSecs(s): a time of day, as seconds after midnight.  QTime
\* wraps when the time passes midnight, in either direction.
QTimeAddSecs(s) == s % 86400

\* QTime.toString("HH:mm:ss")
QTimeToString(t) ==
    Pad2(t \div 3600) \o ":" \o Pad2((t \div 60) % 60) \o ":" \o Pad2(t % 60)

\* FootballVideoAnalyzer.frames_to_time(frames) with self.fps = f.
frames_to_time(f, frames) ==
    LET seconds == IF f.num > 0 THEN TruncDiv(frames * f.den, f.num) ELSE 0
    IN QTimeToString(QTimeAddSecs(seconds))

----------------------------------------------------------------------------
(* Bounds and input sets *)

MaxPrefill == 10
MaxAdds == 3
MaxWindowAdds == 1

Variants == {"main", "editor"}

Call(t, s, c) == [tag |-> t, shortcut |-> s, color |-> c]

\* add_tag calls that a registry may have received before the run starts: the
\* five default tags first, then further names.
PrefillCalls ==
    default_tags \o
    << Call("Foul", NoneVal, NoneVal), Call("Penalty", NoneVal, NoneVal),
       Call("FreeKick", NoneVal, NoneVal), Call("ThrowIn", NoneVal, NoneVal),
       Call("Save", NoneVal, NoneVal), Call("Press", NoneVal, NoneVal),
       Call("Cross", NoneVal, NoneVal), Call("Shot", NoneVal, NoneVal) >>

TagInputs == {"Goal", "Offside", "Kickoff"}
ShortcutColorInputs ==
    { <<NoneVal, NoneVal>>, <<"Ctrl+9", NoneVal>>, <<NoneVal, "#123456">>,
      <<NoneVal, "">> }

WindowTagInputs == {"Goal", "Offside"}
WindowShortcutColorInputs == { <<NoneVal, NoneVal>>, <<NoneVal, "#123456">> }

\* What QColorDialog.getColor returns: an invalid color (cancelled) or a color
\* whose name() is the string.
InvalidColor == "<invalid>"
DialogColors == {InvalidColor, "#abcdef"}

----------------------------------------------------------------------------
(* State after construction *)

NoCap == [exists |-> FALSE, video |-> "", pos |-> 0, opened |-> FALSE]

\* setup_video_playback and create_widgets; clip_start and clip_end are not set
InitRest ==
    /\ cap = NoCap
    /\ video_path = ""
    /\ total_frames = 0
    /\ fps = Rat(30, 1)
    /\ current_frame = 0
    /\ playing = FALSE
    /\ clips = <<>>
    /\ clip_start = <<>>
    /\ clip_end = <<>>
    /\ tag_input = ""
    /\ time_label = "00:00:00 / 00:00:00"
    /\ disk = <<>>
    /\ savedProject = <<>>
    /\ replacedClips = <<>>
    /\ tcFrames = 0
    /\ tcResult = <<>>
    /\ lastOp = "init"
    /\ prevOp = "init"
    /\ outcome = "none"

\* FootballVideoAnalyzer.__init__ of variant v: selected_tag is set to None in
\* main.py and is not set in SiamakEditor.py.
InitSelectedTag(v) == IF v = "main" THEN <<NoneVal>> ELSE <<>>

\* The tag buttons after __init__: main.py builds them in setup_layout, before
\* setup_default_tags replaces the manager; SiamakEditor.py builds them again
\* at the end of __init__.
InitButtons(v) == IF v = "main" THEN <<>> ELSE get_tags(setup_default_tags(v))

\* The window as constructed.
InitWindowTags ==
    /\ variant \in Variants
    /\ tag_manager = setup_default_tags(variant)
    /\ buttons = InitButtons(variant)
    /\ selected_tag = InitSelectedTag(variant)
    /\ addLog = default_tags
    /\ nAdds = 0

\* A TagManager that has received the first k calls of PrefillCalls since its
\* construction (k = 0: a fresh TagManager).
InitRegistry ==
    /\ variant \in Variants
    /\ \E k \in 0..MaxPrefill :
          /\ addLog = SubSeq(PrefillCalls, 1, k)
          /\ tag_manager = AddAll(variant, NewTagManager, SubSeq(PrefillCalls, 1, k))
    /\ buttons = <<>>
    /\ selected_tag = InitSelectedTag(variant)
    /\ nAdds = 0

----------------------------------------------------------------------------
(* Tag handlers *)

\* update_tags_buttons: one button per tag, in get_tags() order.
update_tags_buttons(tm) == get_tags(tm)

\* A call tag_manager.add_tag(tag, shortcut, color).
AddTag(names, args, max) ==
    /\ nAdds < max
    /\ \E tag \in names, sc \in args :
          /\ tag_manager' = add_tag(variant, tag_manager, tag, sc[1], sc[2])
          /\ addLog' = Append(addLog, Call(tag, sc[1], sc[2]))
    /\ nAdds' = nAdds + 1
    /\ lastOp' = "add_tag"
    /\ prevOp' = lastOp
    /\ outcome' = "none"
    /\ UNCHANGED <<variant, buttons, selected_tag>>
    /\ UNCHANGED <<playVars, clipVars, storeVars, tcVars>>

\* DraggableButton.mousePressEvent with the left button on the button of tag t.
MousePress ==
    /\ \E i \in 1..Len(buttons) : selected_tag' = <<buttons[i]>>
    /\ lastOp' = "mouse_press"
    /\ prevOp' = lastOp
    /\ outcome' = "none"
    /\ UNCHANGED <<variant, tag_manager, buttons, addLog, nAdds>>
    /\ UNCHANGED <<playVars, clipVars, storeVars, tcVars>>

\* FootballVideoAnalyzer.change_tag_color (the definition in force in both
\* files takes no argument): the manager afterwards, for the attribute
\* selected_tag = sel and the dialog's answer color.
change_tag_color(tm, sel, color) ==
    IF sel # <<>> /\ color # InvalidColor
    THEN [tm EXCEPT !.tag_colors = Put(tm.tag_colors, sel[1], color)]
    ELSE tm

\* The color button of the tag panel is clicked.
ChangeTagColor ==
    /\ \E color \in DialogColors :
          /\ tag_manager' = change_tag_color(tag_manager, selected_tag, color)
          /\ buttons' = IF selected_tag # <<>> /\ color # InvalidColor
                        THEN update_tags_buttons(tag_manager')
                        ELSE buttons
    /\ lastOp' = "change_tag_color"
    /\ prevOp' = lastOp
    /\ outcome' = "none"
    /\ UNCHANGED <<variant, selected_tag, addLog, nAdds>>
    /\ UNCHANGED <<playVars, clipVars, storeVars, tcVars>>

----------------------------------------------------------------------------
(* Specification of the tag registry under arbitrary add_tag calls *)

NextRegistry == AddTag(TagInputs, ShortcutColorInputs, MaxAdds)

RegistryInit == InitRest /\ InitRegistry

SpecRegistry == RegistryInit /\ [][NextRegistry]_vars

(* Specification of the tag panel of the window *)

NextTagPanel ==
    \/ AddTag(WindowTagInputs, WindowShortcutColorInputs, MaxWindowAdds)
    \/ MousePress
    \/ ChangeTagColor

TagPanelInit == InitRest /\ InitWindowTags

SpecTagPanel == TagPanelInit /\ [][NextTagPanel]_vars

----------------------------------------------------------------------------
(* Video source: cv2.VideoCapture *)

\* The video files the user may pick: path, CAP_PROP_FRAME_COUNT and
\* CAP_PROP_FPS as the source reports them.  The last is a file that cannot
\* be decoded, for which the source reports zero frames and a zero rate.
Videos ==
    { [path |-> "long.mp4", frames |-> 3, fps |-> Rat(30, 1)],
      [path |-> "short.mp4", frames |-> 1, fps |-> Rat(25, 1)],
      [path |-> "broken.mp4", frames |-> 0, fps |-> Rat(0, 1)] }

FramesOf(path) == (CHOOSE v \in Videos : v.path = path).frames

\* cv2.VideoCapture(path)
VideoCapture(path) == [exists |-> TRUE, video |-> path, pos |-> 0, opened |-> TRUE]

\* cap.read() succeeds while the capture is open and frames remain.
CanRead(c) == c.exists /\ c.opened /\ c.pos < FramesOf(c.video)

\* The capture after a successful cap.read(): CAP_PROP_POS_FRAMES is the index
\* of the frame to be decoded next.
AfterRead(c) == [c EXCEPT !.pos = c.pos + 1]

\* cap.release()
Released(c) == IF c.exists THEN [c EXCEPT !.opened = FALSE] ELSE c

----------------------------------------------------------------------------
(* Playback handlers *)

\* update_frame on the capture c with self.playing = p: the capture, the
\* current frame and the time label afterwards.
update_frame(c, p, cur, total, f, label) ==
    IF c.exists /\ p /\ CanRead(c)
    THEN [cap |-> AfterRead(c),
          current_frame |-> AfterRead(c).pos,
          time_label |-> frames_to_time(f, AfterRead(c).pos) \o " / "
                           \o frames_to_time(f, total)]
    ELSE [cap |-> c, current_frame |-> cur, time_label |-> label]

\* The current frame that open_video (the definition in force, lines 384-392)
\* hands to update_frame: it does not assign self.current_frame.
open_video_frame(cur, total) == cur

\* FootballVideoAnalyzer.open_video: the file dialog returns a path, or "" when
\* it is cancelled.
OpenVideo ==
    /\ \E path \in {v.path : v \in Videos} \cup {""} :
          IF path # ""
          THEN LET v == CHOOSE w \in Videos : w.path = path
                   r == update_frame(VideoCapture(path), playing,
                                     open_video_frame(current_frame, v.frames),
                                     v.frames, v.fps, time_label)
               IN /\ video_path' = path
                  /\ total_frames' = v.frames
                  /\ fps' = v.fps
                  /\ cap' = r.cap
                  /\ current_frame' = r.current_frame
                  /\ time_label' = r.time_label
          ELSE UNCHANGED <<video_path, total_frames, fps, cap, current_frame,
                           time_label>>
    /\ lastOp' = "open_video"
    /\ prevOp' = lastOp
    /\ outcome' = "none"
    /\ UNCHANGED playing
    /\ UNCHANGED <<tagVars, clipVars, storeVars, tcVars>>

\* FootballVideoAnalyzer.new_project
NewProject ==
    /\ cap' = Released(cap)
    /\ video_path' = ""
    /\ total_frames' = 0
    /\ current_frame' = 0
    /\ playing' = FALSE
    /\ clips' = <<>>
    /\ time_label' = "00:00:00 / 00:00:00"
    /\ lastOp' = "new_project"
    /\ prevOp' = lastOp
    /\ outcome' = "information"
    /\ UNCHANGED <<fps, clip_start, clip_end, tag_input>>
    /\ UNCHANGED <<tagVars, storeVars, tcVars>>

\* The QTimer's timeout: FootballVideoAnalyzer.update_frame
UpdateFrame ==
    /\ LET r == update_frame(cap, playing, current_frame, total_frames, fps,
                             time_label)
       IN /\ cap' = r.cap
          /\ current_frame' = r.current_frame
          /\ time_label' = r.time_label
    /\ lastOp' = "update_frame"
    /\ prevOp' = lastOp
    /\ outcome' = "none"
    /\ UNCHANGED <<video_path, total_frames, fps, playing>>
    /\ UNCHANGED <<tagVars, clipVars, storeVars, tcVars>>

\* toggle_play (connected on lines 344 and 369, not defined in src): play and
\* pause flip self.playing.
TogglePlay ==
    /\ playing' = ~playing
    /\ lastOp' = "toggle_play"
    /\ prevOp' = lastOp
    /\ outcome' = "none"
    /\ UNCHANGED <<cap, video_path, total_frames, fps, current_frame, time_label>>
    /\ UNCHANGED <<tagVars, clipVars, storeVars, tcVars>>

----------------------------------------------------------------------------
(* Clip handlers *)

MaxMarkerFrame == 1
MaxClips == 2
MaxStoreClips == 2

MarkerFrames == 0..MaxMarkerFrame
TagTexts == {"", "Goal"}
StoreStartFrames == {0}
StoreEndFrames == {1}
StoreTagTexts == {"Goal", "Foul"}

Clip(s, e, t) == [start |-> s, end |-> e, tag |-> t]

\* set_clip_start (connected on line 347, not defined in src): begin_marker of
\* the specification records the pending start frame, last write wins.
SetClipStart(frames) ==
    /\ \E f \in frames : clip_start' = <<f>>
    /\ lastOp' = "set_clip_start"
    /\ prevOp' = lastOp
    /\ outcome' = "none"
    /\ UNCHANGED <<clips, clip_end, tag_input>>
    /\ UNCHANGED <<tagVars, playVars, storeVars, tcVars>>

\* set_clip_end (connected on line 348, not defined in src): end_marker of the
\* specification records the pending end frame.
SetClipEnd(frames) ==
    /\ \E f \in frames : clip_end' = <<f>>
    /\ lastOp' = "set_clip_end"
    /\ prevOp' = lastOp
    /\ outcome' = "none"
    /\ UNCHANGED <<clips, clip_start, tag_input>>
    /\ UNCHANGED <<tagVars, playVars, storeVars, tcVars>>

\* The text of tag_input changes: typed, or set by a tag button or a tag
\* shortcut (tag_input.setText on lines 382 and 444).
SetTagInput(texts) ==
    /\ \E t \in texts : tag_input' = t
    /\ lastOp' = "tag_input"
    /\ prevOp' = lastOp
    /\ outcome' = "none"
    /\ UNCHANGED <<clips, clip_start, clip_end>>
    /\ UNCHANGED <<tagVars, playVars, storeVars, tcVars>>

\* A plausible slip: the two delattr calls sit outside "if tag", so a commit
\* with an empty tag text discards the markers.
add_clip_clearing(cs, s, e, tag) ==
    IF s # <<>> /\ e # <<>>
    THEN IF tag # ""
         THEN [clips |-> Append(cs, Clip(s[1], e[1], tag)),
               clip_start |-> <<>>, clip_end |-> <<>>, appended |-> TRUE]
         ELSE [clips |-> cs, clip_start |-> <<>>, clip_end |-> <<>>,
               appended |-> FALSE]
    ELSE [clips |-> cs, clip_start |-> s, clip_end |-> e, appended |-> FALSE]

\* A plausible slip: only the start marker is deleted after the append.
add_clip_keeping_end(cs, s, e, tag) ==
    IF s # <<>> /\ e # <<>> /\ tag # ""
    THEN [clips |-> Append(cs, Clip(s[1], e[1], tag)),
          clip_start |-> <<>>, clip_end |-> e, appended |-> TRUE]
    ELSE [clips |-> cs, clip_start |-> s, clip_end |-> e, appended |-> FALSE]

\* FootballVideoAnalyzer.add_clip on the clip list cs, the marker attributes s
\* and e and the tag text: the three afterwards, and whether a clip was added.
add_clip(cs, s, e, tag) ==
    IF s # <<>> /\ e # <<>>
    THEN IF tag # ""
         THEN [clips |-> Append(cs, Clip(s[1], e[1], tag)),
               clip_start |-> <<>>, clip_end |-> <<>>, appended |-> TRUE]
         ELSE [clips |-> cs, clip_start |-> s, clip_end |-> e, appended |-> FALSE]
    ELSE [clips |-> cs, clip_start |-> s, clip_end |-> e, appended |-> FALSE]

\* The Add Clip button: FootballVideoAnalyzer.add_clip.  It shows no message
\* and raises nothing on either path.
AddClip(max) ==
    /\ add_clip(clips, clip_start, clip_end, tag_input).appended => Len(clips) < max
    /\ LET r == add_clip(clips, clip_start, clip_end, tag_input)
       IN /\ clips' = r.clips
          /\ clip_start' = r.clip_start
          /\ clip_end' = r.clip_end
          /\ lastOp' = IF r.appended THEN "add_clip:appended" ELSE "add_clip:ignored"
          /\ prevOp' = lastOp
    /\ outcome' = "none"
    /\ UNCHANGED tag_input
    /\ UNCHANGED <<tagVars, playVars, storeVars, tcVars>>

----------------------------------------------------------------------------
(* Project file: json.dump and json.load *)

\* A JSON document is a tree of [str |-> s], [num |-> n], [arr |-> sequence]
\* and [obj |-> function from keys to documents].

\* json.dump of a clip dict
ClipToJson(c) ==
    [obj |-> [start |-> [num |-> c.start], end |-> [num |-> c.end],
              tag |-> [str |-> c.tag]]]

\* json.dump of the dict built on lines 272-275
ProjectToJson(path, cs) ==
    [obj |-> [video_path |-> [str |-> path],
              clips |-> [arr |-> [i \in 1..Len(cs) |-> ClipToJson(cs[i])]]]]

\* A file that json.load cannot parse is [text |-> s].
IsJson(doc) == DOMAIN doc # {"text"}

\* isinstance(data, dict): only a dict has the get method called on line 252
IsObject(doc) == DOMAIN doc = {"obj"}

\* A JSON object holding an integer start, an integer end and a string tag
IsClipObject(j) ==
    /\ DOMAIN j = {"obj"}
    /\ DOMAIN j.obj = {"start", "end", "tag"}
    /\ DOMAIN j.obj.start = {"num"}
    /\ DOMAIN j.obj.end = {"num"}
    /\ DOMAIN j.obj.tag = {"str"}

\* json.load of one element of the clips array: a clip object becomes the
\* clip dict; any other value is kept as the tree that json.load built.
ClipFromJson(j) ==
    IF IsClipObject(j)
    THEN [start |-> j.obj.start.num, end |-> j.obj.end.num, tag |-> j.obj.tag.str]
    ELSE j

\* A value of self.clips that is not a list is held as the one-element
\* sequence <<[nonlist |-> value]>>.
NonList(v) == <<[nonlist |-> v]>>

IsList(cs) == ~(Len(cs) = 1 /\ DOMAIN cs[1] = {"nonlist"})

\* An element of self.clips that is a clip dict with the three typed fields
IsClip(c) == DOMAIN c = {"start", "end", "tag"}

\* data.get('clips', []) on the loaded document
LoadedClips(doc) ==
    IF "clips" \in DOMAIN doc.obj
    THEN IF DOMAIN doc.obj.clips = {"arr"}
         THEN [i \in 1..Len(doc.obj.clips.arr) |-> ClipFromJson(doc.obj.clips.arr[i])]
         ELSE NonList(doc.obj.clips)
    ELSE <<>>

\* update_clips_list is not defined in src: it fills the list widget with one
\* row per clip, formatted as add_clip formats it on line 403 from the keys
\* tag, start and end.  The lookup raises on a value that is not a list of
\* dicts holding the three keys, and formats values of any type.
update_clips_list_raises(cs) ==
    \/ ~IsList(cs)
    \/ \E i \in 1..Len(cs) :
          /\ ~IsClip(cs[i])
          /\ \/ DOMAIN cs[i] # {"obj"}
             \/ ~({"start", "end", "tag"} \subseteq DOMAIN cs[i].obj)

\* FootballVideoAnalyzer.save_data: the file dialog returns a path or nothing.
SaveData ==
    /\ IF video_path = ""
       THEN /\ outcome' = "warning"
            /\ lastOp' = "save_data:refused"
            /\ prevOp' = lastOp
            /\ UNCHANGED <<disk, savedProject>>
       ELSE \E chosen \in BOOLEAN :
               IF chosen
               THEN /\ disk' = <<ProjectToJson(video_path, clips)>>
                    /\ savedProject' = <<[video_path |-> video_path, clips |-> clips]>>
                    /\ outcome' = "information"
                    /\ lastOp' = "save_data:saved"
                    /\ prevOp' = lastOp
               ELSE /\ outcome' = "none"
                    /\ lastOp' = "save_data:cancelled"
                    /\ prevOp' = lastOp
                    /\ UNCHANGED <<disk, savedProject>>
    /\ UNCHANGED replacedClips
    /\ UNCHANGED <<tagVars, playVars, clipVars, tcVars>>

\* A plausible slip: the clip list in memory as the default of the lookup.
load_data_clips_keeping(cs, doc) ==
    IF "clips" \in DOMAIN doc.obj THEN LoadedClips(doc) ELSE cs

\* self.clips after the assignment on line 252.
load_data_clips(cs, doc) == LoadedClips(doc)

\* The try block of load_data (lines 249-256): json.load, the assignment of
\* self.clips, update_clips_list, and the message box of whichever branch ends
\* the call.  An exception leaves every assignment made before it in place.
load_data(cs, doc) ==
    IF ~IsJson(doc) \/ ~IsObject(doc)
    THEN [clips |-> cs, outcome |-> "critical", result |-> "load_data:failed"]
    ELSE LET loaded == load_data_clips(cs, doc)
         IN IF update_clips_list_raises(loaded)
            THEN [clips |-> loaded, outcome |-> "critical",
                  result |-> "load_data:failed"]
            ELSE [clips |-> loaded, outcome |-> "information",
                  result |-> "load_data:loaded"]

\* Project files that were not written by save_data of this session
ExternalDocuments ==
    << [text |-> "not json"],
       [arr |-> <<>>],
       [str |-> "clips"],
       [obj |-> [video_path |-> [str |-> "match.mp4"]]],
       ProjectToJson("match.mp4", <<Clip(0, 1, "Goal"), Clip(2, 5, "Foul")>>),
       ProjectToJson("match.mp4", <<Clip(5, 2, "Goal")>>),
       ProjectToJson("match.mp4", <<Clip(-1, 2, "Foul")>>),
       [obj |-> [clips |-> [str |-> "abc"]]],
       [obj |-> [clips |-> [arr |-> <<[num |-> 5]>>]]],
       [obj |-> [clips |-> [arr |-> <<[obj |-> [start |-> [num |-> 1]]]>>]]],
       [obj |-> [clips |-> [arr |-> <<[obj |-> [start |-> [str |-> "a"],
                                                end |-> [num |-> 1],
                                                tag |-> [str |-> "Goal"]]]>>]]] >>

\* The file that the dialog of load_data will open is one written elsewhere.
ExternalFile ==
    /\ \E i \in 1..Len(ExternalDocuments) : disk' = <<ExternalDocuments[i]>>
    /\ savedProject' = <<>>
    /\ UNCHANGED replacedClips
    /\ outcome' = "none"
    /\ lastOp' = "external_file"
    /\ prevOp' = lastOp
    /\ UNCHANGED <<tagVars, playVars, clipVars, tcVars>>

\* FootballVideoAnalyzer.load_data of the project file
LoadData ==
    /\ disk # <<>>
    /\ \E chosen \in BOOLEAN :
          IF chosen
          THEN LET r == load_data(clips, disk[1])
               IN /\ clips' = r.clips
                  /\ replacedClips' = clips
                  /\ outcome' = r.outcome
                  /\ lastOp' = r.result
                  /\ prevOp' = lastOp
          ELSE /\ outcome' = "none"
               /\ lastOp' = "load_data:cancelled"
               /\ prevOp' = lastOp
               /\ UNCHANGED <<clips, replacedClips>>
    /\ UNCHANGED <<disk, savedProject>>
    /\ UNCHANGED <<clip_start, clip_end, tag_input>>
    /\ UNCHANGED <<tagVars, playVars, tcVars>>

----------------------------------------------------------------------------
(* Time-code calls *)

FrameSamples ==
    {0, 1, 29, 30, 31, 89, 90, 91, 1799, 1800, 107999, 108000, 108001,
     2591999, 2592000, 2592001, 2700000, 5184000, 5292090}

FpsSamples ==
    {Rat(-1, 1), Rat(0, 1), Rat(1, 2), Rat(1, 1), Rat(25, 2), Rat(25, 1),
     Rat(30, 1), Rat(60, 1)}

\* A call frames_to_time(tcFrames).
FramesToTime ==
    /\ tcResult = <<>>
    /\ tcResult' = <<frames_to_time(fps, tcFrames)>>
    /\ lastOp' = "frames_to_time"
    /\ prevOp' = lastOp
    /\ outcome' = "none"
    /\ UNCHANGED tcFrames
    /\ UNCHANGED <<tagVars, playVars, clipVars, storeVars>>

----------------------------------------------------------------------------
(* Specifications of the window of main.py *)

\* The tag state of main.py's window, with no tag handler running.
MainWindowTags ==
    /\ variant = "main"
    /\ tag_manager = setup_default_tags("main")
    /\ buttons = InitButtons("main")
    /\ selected_tag = InitSelectedTag("main")
    /\ addLog = default_tags
    /\ nAdds = 0

WindowInit == InitRest /\ MainWindowTags

\* Playback
NextPlayback == OpenVideo \/ NewProject \/ UpdateFrame \/ TogglePlay

SpecPlayback == WindowInit /\ [][NextPlayback]_vars

\* Clip authoring
NextClips ==
    \/ SetClipStart(MarkerFrames)
    \/ SetClipEnd(MarkerFrames)
    \/ SetTagInput(TagTexts)
    \/ AddClip(MaxClips)
    \/ NewProject

SpecClips == WindowInit /\ [][NextClips]_vars

\* Project file
NextStore ==
    \/ OpenVideo
    \/ NewProject
    \/ SetClipStart(StoreStartFrames)
    \/ SetClipEnd(StoreEndFrames)
    \/ SetTagInput(StoreTagTexts)
    \/ AddClip(MaxStoreClips)
    \/ SaveData
    \/ LoadData

SpecStore == WindowInit /\ [][NextStore]_vars

\* Loading project files written elsewhere
NextLoad ==
    \/ ExternalFile
    \/ LoadData
    \/ OpenVideo
    \/ NewProject

SpecLoad == WindowInit /\ [][NextLoad]_vars

\* Time code: one call for each sampled frame count and frame rate
TimecodeInit ==
    /\ MainWindowTags
    /\ cap = NoCap
    /\ video_path = ""
    /\ total_frames = 0
    /\ fps \in FpsSamples
    /\ current_frame = 0
    /\ playing = FALSE
    /\ clips = <<>>
    /\ clip_start = <<>>
    /\ clip_end = <<>>
    /\ tag_input = ""
    /\ time_label = "00:00:00 / 00:00:00"
    /\ disk = <<>>
    /\ savedProject = <<>>
    /\ replacedClips = <<>>
    /\ tcFrames \in FrameSamples
    /\ tcResult = <<>>
    /\ lastOp = "init"
    /\ prevOp = "init"
    /\ outcome = "none"

SpecTimecode == TimecodeInit /\ [][FramesToTime]_vars

----------------------------------------------------------------------------
(* Claims about the tag registry *)

\* The position of the first call of addLog that names t.
FirstCall(t) == CHOOSE i \in 1..Len(addLog) :
                    /\ addLog[i].tag = t
                    /\ \A j \in 1..(i - 1) : addLog[j].tag # t

\* C1: after any sequence of add_tag calls on a fresh registry, get_tags()
\* holds every name that was added exactly once, and the names are ordered by
\* the position of their first add_tag call.
C1_TagsAreFirstInsertions ==
    LET tags == get_tags(tag_manager) IN
    /\ \A i, j \in 1..Len(tags) : i # j => tags[i] # tags[j]
    /\ {tags[i] : i \in 1..Len(tags)} = {addLog[i].tag : i \in 1..Len(addLog)}
    /\ \A i, j \in 1..Len(tags) : i < j => FirstCall(tags[i]) < FirstCall(tags[j])

\* C1 witness: names were added again after other names had been registered.
C1_Witness ==
    /\ nAdds >= 2
    /\ Len(get_tags(tag_manager)) >= 2
    /\ \E i, j \in 1..Len(addLog) :
          /\ i + 1 < j
          /\ addLog[i].tag = addLog[j].tag
          /\ addLog[i + 1].tag # addLog[i].tag

\* The step is an add_tag call; its arguments are the last entry of addLog'.
IsAddStep == nAdds' = nAdds + 1
LastCall == addLog'[Len(addLog')]

\* C2: an add_tag call for a name that is already registered changes nothing:
\* the tag order, the tag's shortcut and the tag's color stay as they were.
C2_RepeatedAddChangesNothing ==
    [][(IsAddStep /\ In(LastCall.tag, get_tags(tag_manager))) =>
          /\ get_tags(tag_manager') = get_tags(tag_manager)
          /\ get_shortcut(tag_manager', LastCall.tag)
               = get_shortcut(tag_manager, LastCall.tag)
          /\ get_tag_color(tag_manager', LastCall.tag)
               = get_tag_color(tag_manager, LastCall.tag)
          /\ tag_manager' = tag_manager]_vars

\* C2 witness: the last call named a registered tag and supplied a shortcut or
\* a color other than the stored one.
C2_Witness ==
    /\ lastOp = "add_tag"
    /\ nAdds >= 1
    /\ LET c == addLog[Len(addLog)] IN
          /\ \E i \in 1..(Len(addLog) - 1) : addLog[i].tag = c.tag
          /\ \/ Truthy(c.color) /\ c.color # get_tag_color(tag_manager, c.tag)
             \/ Truthy(c.shortcut) /\ c.shortcut # get_shortcut(tag_manager, c.tag)

\* C3 as stated: a new name added without a color gets the palette entry at
\* index (tag count modulo palette size), and a supplied color is assigned.
C3_PaletteColorAsStated ==
    [][(IsAddStep /\ ~In(LastCall.tag, get_tags(tag_manager))) =>
          get_tag_color(tag_manager', LastCall.tag) =
             IF Truthy(LastCall.color) THEN LastCall.color
             ELSE available_colors[
                    (Len(get_tags(tag_manager')) % Len(available_colors)) + 1]]_vars

\* C3: a new name added without a color (None or empty) gets, in main.py, the
\* palette entry at index (tag count including the new tag) modulo palette
\* size, and in SiamakEditor.py the neutral "#DDDDDD"; a supplied color is the
\* one assigned in both.
C3_PaletteColorMainOnly ==
    [][(IsAddStep /\ ~In(LastCall.tag, get_tags(tag_manager))) =>
          get_tag_color(tag_manager', LastCall.tag) =
             IF Truthy(LastCall.color) THEN LastCall.color
             ELSE IF variant = "main"
                  THEN available_colors[
                         ((Len(get_tags(tag_manager)) + 1) % Len(available_colors)) + 1]
                  ELSE NeutralColor]_vars

\* C3 witness: in main.py the palette has wrapped: the tag that made the count
\* reach the palette size was added without a color and got the first entry.
C3_Witness ==
    /\ variant = "main"
    /\ lastOp = "add_tag"
    /\ Len(get_tags(tag_manager)) = Len(available_colors)
    /\ LET c == addLog[Len(addLog)] IN
          /\ ~Truthy(c.color)
          /\ \A i \in 1..(Len(addLog) - 1) : addLog[i].tag # c.tag
          /\ get_tag_color(tag_manager, c.tag) = available_colors[1]

\* C4 as stated: a color change while the selected tag is not registered (also
\* when none is selected) leaves the tag list and the color mapping unchanged;
\* for a registered tag the color becomes the chosen one.
C4_UnknownTagColorIsNoOp ==
    [][lastOp' = "change_tag_color" =>
          IF selected_tag # <<>> /\ In(selected_tag[1], get_tags(tag_manager))
          THEN \/ tag_manager' = tag_manager
               \/ /\ get_tags(tag_manager') = get_tags(tag_manager)
                  /\ get_tag_color(tag_manager', selected_tag[1]) \in DialogColors
          ELSE tag_manager' = tag_manager]_vars

----------------------------------------------------------------------------
(* Claims about clips *)

\* The step is a run of add_clip.
IsAddClipStep == lastOp' \in {"add_clip:appended", "add_clip:ignored"}

MarkersAndTagSet == clip_start # <<>> /\ clip_end # <<>> /\ tag_input # ""

----------------------------------------------------------------------------
(* Claims about the time code *)

\* A natural number in decimal.
RECURSIVE Decimal(_)
Decimal(n) == IF n < 10 THEN DigitChars[n + 1]
              ELSE Decimal(n \div 10) \o DigitChars[(n % 10) + 1]

\* Zero-padded to at least two digits, otherwise unbounded.
Padded(n) == IF n < 10 THEN "0" \o Decimal(n) ELSE Decimal(n)

\* HH:MM:SS of a number of seconds, the hours not capped.
Timecode(seconds) ==
    Padded(seconds \div 3600) \o ":" \o Padded((seconds \div 60) % 60) \o ":"
        \o Padded(seconds % 60)

\* floor(n / fps) for fps = num / den > 0
ElapsedSeconds == (tcFrames * fps.den) \div fps.num

\* C7: frames_to_time returns "00:00:00" for every frame count when fps <= 0,
\* and for fps > 0 the HH:MM:SS rendering of floor(n / fps) seconds.
C7_TimecodeOfElapsedSeconds ==
    tcResult # <<>> =>
        tcResult[1] = IF fps.num <= 0 THEN "00:00:00" ELSE Timecode(ElapsedSeconds)

\* C8: for an elapsed time of 86400 seconds or more the hours field is
\* floor(seconds / 3600), 24 or more; it does not wrap to a value below 24.
C8_HoursNotCapped ==
    (tcResult # <<>> /\ fps.num > 0 /\ ElapsedSeconds >= 86400) =>
        \E mm, ss \in 0..59 :
            tcResult[1] = Padded(ElapsedSeconds \div 3600) \o ":" \o Padded(mm)
                              \o ":" \o Padded(ss)

----------------------------------------------------------------------------
(* Claims about playback and the project file *)

\* C9: after any sequence of open_video, new_project, play/pause and timer
\* ticks, 0 <= current_frame <= total_frames.
C9_CurrentFrameWithinTotal ==
    0 <= current_frame /\ current_frame <= total_frames

\* C10: after loading the document that save_data wrote for a project p, the
\* project in memory equals p: the same video_path, the same clips in order.
C10_LoadAfterSaveRestoresProject ==
    (lastOp = "load_data:loaded" /\ savedProject # <<>>) =>
        /\ video_path = savedProject[1].video_path
        /\ clips = savedProject[1].clips

----------------------------------------------------------------------------
(* Claims about loading project files written elsewhere *)

\* The results of a load_data call that opened a file
LoadResults == {"load_data:loaded", "load_data:failed"}

\* The document is a JSON object that has no "clips" key.
HasNoClipsKey(doc) ==
    IsJson(doc) /\ IsObject(doc) /\ "clips" \notin DOMAIN doc.obj

\* The document is a JSON object whose "clips" value, if present, is an array
\* of objects each holding an integer start, an integer end and a string tag.
WellFormedDocument(doc) ==
    /\ IsJson(doc)
    /\ IsObject(doc)
    /\ "clips" \in DOMAIN doc.obj =>
          /\ DOMAIN doc.obj.clips = {"arr"}
          /\ \A i \in 1..Len(doc.obj.clips.arr) : IsClipObject(doc.obj.clips.arr[i])

\* C11: loading a document that is an object without a "clips" key succeeds:
\* the success message is shown and the clip list in memory becomes empty.
C11_LoadWithoutClipsKeyGivesNoClips ==
    [][(disk # <<>> /\ lastOp' \in LoadResults /\ HasNoClipsKey(disk[1])) =>
           /\ lastOp' = "load_data:loaded"
           /\ outcome' = "information"
           /\ clips' = <<>>]_vars

C11_Witness ==
    /\ disk # <<>>
    /\ HasNoClipsKey(disk[1])
    /\ lastOp = "load_data:loaded"
    /\ outcome = "information"
    /\ replacedClips # <<>>
    /\ clips = <<>>

\* C12: loading a malformed document (not an object, or "clips" not an array
\* of objects with integer start, integer end and string tag) shows the
\* failure message and leaves the clip list and video_path as they were.
C12_MalformedLoadChangesNothing ==
    [][(disk # <<>> /\ lastOp' \in LoadResults /\ ~WellFormedDocument(disk[1])) =>
           /\ lastOp' = "load_data:failed"
           /\ outcome' = "critical"
           /\ clips' = clips
           /\ video_path' = video_path]_vars

\* C13: every clip of the clip list satisfies 0 <= start <= end.
C13_ClipFramesOrdered ==
    \A i \in 1..Len(clips) :
        IsClip(clips[i]) => 0 <= clips[i].start /\ clips[i].start <= clips[i].end

----------------------------------------------------------------------------
(* Claims about the playback state *)

DefaultFps == Rat(30, 1)

\* C14: new_project and open_video reset the playback state: afterwards
\* current_frame is 0 and playing is false; total_frames and fps are 0 and the
\* default 30 after new_project, the new video's values after open_video.
C14_PlaybackStateReset ==
    [][/\ lastOp' = "new_project" =>
              /\ current_frame' = 0
              /\ playing' = FALSE
              /\ total_frames' = 0
              /\ fps' = DefaultFps
       /\ (lastOp' = "open_video" /\ video_path' # video_path) =>
              /\ current_frame' = 0
              /\ playing' = FALSE
              /\ \E v \in Videos : /\ v.path = video_path'
                                   /\ total_frames' = v.frames
                                   /\ fps' = v.fps]_vars

\* C15: the stored fps is strictly positive; while a video is open whose
\* source reports a rate of zero, the stored fps is 30.
C15_FpsPositive ==
    /\ fps.num > 0
    /\ \A v \in Videos :
          (v.path = video_path /\ v.fps.num = 0) => fps = DefaultFps

----------------------------------------------------------------------------
(* Claims about the tag registry of the window *)

\* C16: the names that have a stored color are exactly the names of the tag
\* list, and every name that has a stored shortcut is in the tag list; no
\* entry exists for a name, or for None, that get_tags does not return.
C16_ColorsAndShortcutsOnlyForTags ==
    LET names == {get_tags(tag_manager)[i] : i \in 1..Len(get_tags(tag_manager))}
    IN /\ DOMAIN tag_manager.tag_colors = names
       /\ DOMAIN tag_manager.shortcuts \subseteq names

====
